---- MODULE Spec2Model ----
(***************************************************************************)
(* A model of FileExplorer (src/file-manager.py): the navigation state of  *)
(* the window, the file operations of its toolbar, the search walk and the *)
(* preview of the selected entry, over a small filesystem.                 *)
(*                                                                         *)
(* A file name is a sequence of characters, a path the sequence of the     *)
(* names from the filesystem root down: <<>> is "/", <<nH>> is "/h".       *)
(* A QModelIndex is modelled by the path it resolves to (model.filePath),  *)
(* the invalid index by NoIndex.  The filesystem follows POSIX.            *)
(*                                                                         *)
(* Spec runs the navigation handlers and the search over a fixed tree,     *)
(* SpecFiles the file operations (at most MaxMutations changes of the      *)
(* filesystem), SpecPreview the selection handler with entries the user    *)
(* may not read, SpecSearch the loop of on_search step by step over large  *)
(* directories.                                                            *)
(***************************************************************************)
EXTENDS Integers, Sequences, FiniteSets, TLC

VARIABLES
    fs,        \* the filesystem: existing path -> "dir" | "text" | "binary"
    denied,    \* paths the user may not read (listdir / open raise)
    app,       \* the FileExplorer object: its fields and its widgets' state
    dialogs,   \* titles of the message boxes the last handler showed
    escaped,   \* an exception left the last handler
    event,     \* the last handler run and its inputs
    mutations, \* how many times a handler has changed the filesystem
    matched,   \* on_search's result list
    walk,      \* search loop: what os.walk yields, in order
    pattern,   \* search loop: the stripped text of the search box
    pos,       \* search loop: the os.walk item the loop is at
    pc         \* search loop: "idle" | "loop" | "done"

vars == <<fs, denied, app, dialogs, escaped, event, mutations, matched, walk, pattern, pos, pc>>

(***************************************************************************)
(* Bounds of the model.                                                    *)
(***************************************************************************)
MaxHist == 2
MaxMutations == 2
MaxWalkDirs == 2
Extra == 1

(***************************************************************************)
(* Names and paths.                                                        *)
(***************************************************************************)
nH == <<"h">>
nD == <<"d">>
nA == <<"a", ".", "t">>
nB == <<"b", ".", "m">>
nN == <<"n">>

Root == <<>>
Home == <<nH>>
NoIndex == << <<>> >>

join(dir, name) == Append(dir, name)

\* os.path.dirname: the parent of "/" is "/"
dirname(p) == IF p = Root THEN Root ELSE SubSeq(p, 1, Len(p) - 1)

\* os.path.basename
basename(p) == IF p = Root THEN <<>> ELSE p[Len(p)]

IsPrefix(p, q) == Len(p) <= Len(q) /\ SubSeq(q, 1, Len(p)) = p

Exists(f, p) == p \in DOMAIN f

\* os.path.isdir
isdir(f, p) == p \in DOMAIN f /\ f[p] = "dir"

Children(f, d) == {p \in DOMAIN f : Len(p) = Len(d) + 1 /\ dirname(p) = d}

Restrict(f, S) == [p \in S |-> f[p]]

(***************************************************************************)
(* Texts of the address bar: a path, possibly typed with blanks around it  *)
(* and with a trailing separator.                                          *)
(***************************************************************************)
Txt(p) == [path |-> p, pad |-> FALSE, slash |-> FALSE]

\* str.strip
strip(t) == [t EXCEPT !.pad = FALSE]

\* str(Path(path)): drops a trailing separator
PathNorm(t) == [t EXCEPT !.slash = FALSE]

\* os.path.isdir of a text: blanks are part of the name looked up
IsDirText(f, t) == ~t.pad /\ isdir(f, t.path)

(***************************************************************************)
(* The window's state.                                                     *)
(***************************************************************************)
Msg(kind, p, n) == [kind |-> kind, path |-> p, n |-> n]

\* a handler run from the current state: its name, its inputs (an index or
\* path, a typed name or text, an answer) and the current path it started at
Ev(op, p, name, yes) ==
    [op |-> op, path |-> p, name |-> name, yes |-> yes, n |-> 0,
     from |-> app.current_index]

\* model.filePath
filePath(idx) == idx

\* model.index(path).isValid(): the model knows the paths that exist
IndexValid(f, p) == Exists(f, p)

InitFs ==
    (Root :> "dir") @@ (Home :> "dir") @@ (join(Home, nD) :> "dir")
    @@ (join(join(Home, nD), nA) :> "text") @@ (join(Home, nB) :> "binary")

InitApp ==
    [ model_fs      |-> InitFs,
      current_index |-> Home,
      list_root     |-> Home,
      tree_current  |-> NoIndex,
      list_current  |-> NoIndex,
      address_bar   |-> Txt(Home),
      history       |-> <<>>,
      status        |-> Msg("", NoIndex, 0),
      preview       |-> Msg("placeholder", NoIndex, 0) ]

\* _change_directory without its os.path.isdir test
change_directory_unchecked(a, f, text) ==
    LET t == PathNorm(text)
    IN  IF ~IndexValid(f, t.path) THEN a
        ELSE [a EXCEPT !.list_root = t.path,
                       !.tree_current = t.path,
                       !.address_bar = Txt(t.path),
                       !.current_index = t.path,
                       !.status = Msg("path", t.path, 0)]

\* _change_directory
change_directory(a, f, text) ==
    LET t == PathNorm(text)
    IN  IF ~IsDirText(f, t) THEN a
        ELSE IF ~IndexValid(f, t.path) THEN a
        ELSE [a EXCEPT !.list_root = t.path,
                       !.tree_current = t.path,
                       !.address_bar = Txt(t.path),
                       !.current_index = t.path,
                       !.status = Msg("path", t.path, 0)]

\* _push_history
push_history(a) == [a EXCEPT !.history = Append(@, filePath(a.current_index))]

\* go_back
go_back_state(a, f) ==
    IF a.history # <<>>
    THEN LET prev == a.history[Len(a.history)]
             popped == [a EXCEPT !.history = SubSeq(@, 1, Len(@) - 1)]
         IN  change_directory(popped, f, Txt(prev))
    ELSE a

\* go_up.  A path is never the empty string, so "parent and isdir(parent)"
\* is isdir(parent); the parent of "/" is "/" itself.
go_up_state(a, f) ==
    LET cur == filePath(a.current_index)
        parent == dirname(cur)
    IN  IF isdir(f, parent)
        THEN change_directory(push_history(a), f, Txt(parent))
        ELSE a

\* _is_text_file: open fails, a null byte or undecodable bytes give False
is_text_file(f, den, p) == Exists(f, p) /\ p \notin den /\ f[p] = "text"

\* on_selection_changed for the index now selected (NoIndex: nothing selected).
\* The result is the preview pane and whether an exception left the handler.
on_selection_changed(a, f, den, idx) ==
    IF idx = NoIndex
    THEN [preview |-> Msg("clear", NoIndex, 0), escaped |-> FALSE]
    ELSE LET path == filePath(idx)
         IN  IF isdir(f, path)
             THEN IF path \in den
                  \* os.listdir raises outside any try block
                  THEN [preview |-> a.preview, escaped |-> TRUE]
                  ELSE [preview |-> Msg("dir", path, Cardinality(Children(f, path))),
                        escaped |-> FALSE]
             ELSE IF is_text_file(f, den, path)
                  THEN [preview |-> Msg("text", path, 0), escaped |-> FALSE]
                  ELSE IF Exists(f, path)
                       \* os.path.getsize needs no read permission
                       THEN [preview |-> Msg("binary", path, 0), escaped |-> FALSE]
                       ELSE [preview |-> Msg("error", NoIndex, 0), escaped |-> FALSE]

\* list_view's current index becomes idx; a change of the selection emits
\* selectionChanged, which runs on_selection_changed
SetListCurrent(a, f, den, idx) ==
    IF idx = a.list_current
    THEN [a |-> a, escaped |-> FALSE]
    ELSE LET r == on_selection_changed(a, f, den, idx)
         IN  [a |-> [a EXCEPT !.list_current = idx, !.preview = r.preview],
              escaped |-> r.escaped]

\* the entries the list view displays: the model cannot list a denied directory
Listing(a, den) == IF a.list_root \in den THEN {} ELSE Children(a.model_fs, a.list_root)

\* the entries the tree view displays: everything below its root index
TreeItems(a) == {p \in DOMAIN a.model_fs : IsPrefix(Home, p) /\ p # Home}

\* on_item_activated / open_item on a path
open_state(a, f, path) ==
    IF isdir(f, path)
    THEN change_directory(push_history(a), f, Txt(path))
    ELSE a

(***************************************************************************)
(* The filesystem calls.                                                   *)
(***************************************************************************)
Prefixes(p) == {SubSeq(p, 1, k) : k \in 0..Len(p)}

Result(err, f) == [err |-> err, fs |-> f]

\* os.makedirs(path, exist_ok=True): an existing directory is no error
makedirs_exist_ok(f, p) ==
    IF isdir(f, p) THEN Result("", f)
    ELSE IF Exists(f, p) THEN Result("FileExistsError", f)
    ELSE IF \E q \in Prefixes(p) : Exists(f, q) /\ f[q] # "dir"
         THEN Result("NotADirectoryError", f)
         ELSE Result("", [q \in DOMAIN f \cup Prefixes(p) |->
                              IF q \in DOMAIN f THEN f[q] ELSE "dir"])

\* os.makedirs(path, exist_ok=False)
makedirs(f, p) ==
    IF Exists(f, p) THEN Result("FileExistsError", f)
    ELSE IF \E q \in Prefixes(p) : Exists(f, q) /\ f[q] # "dir"
         THEN Result("NotADirectoryError", f)
         ELSE Result("", [q \in DOMAIN f \cup Prefixes(p) |->
                              IF q \in DOMAIN f THEN f[q] ELSE "dir"])

\* shutil.rmtree
rmtree(f, p) ==
    IF ~isdir(f, p) THEN Result("NotADirectoryError", f)
    ELSE Result("", Restrict(f, {q \in DOMAIN f : ~IsPrefix(p, q)}))

\* os.remove
os_remove(f, p) ==
    IF ~Exists(f, p) THEN Result("FileNotFoundError", f)
    ELSE IF isdir(f, p) THEN Result("IsADirectoryError", f)
    ELSE Result("", Restrict(f, DOMAIN f \ {p}))

\* the entries of old's subtree, moved below new
Moved(f, old, new) ==
    LET sub == {q \in DOMAIN f : IsPrefix(old, q)}
        to(q) == new \o SubSeq(q, Len(old) + 1, Len(q))
        kept == {q \in DOMAIN f : ~IsPrefix(old, q) /\ ~IsPrefix(new, q)}
        dest == {to(q) : q \in sub}
    IN  [q \in kept \cup dest |->
            IF q \in dest
            THEN f[CHOOSE o \in sub : to(o) = q]
            ELSE f[q]]

\* os.rename (POSIX): a file replaces a file, a directory an empty directory
os_rename(f, old, new) ==
    IF ~Exists(f, old) THEN Result("FileNotFoundError", f)
    ELSE IF ~Exists(f, new) THEN Result("", Moved(f, old, new))
    ELSE IF isdir(f, old) /\ ~isdir(f, new) THEN Result("NotADirectoryError", f)
    ELSE IF ~isdir(f, old) /\ isdir(f, new) THEN Result("IsADirectoryError", f)
    ELSE IF isdir(f, new) /\ Children(f, new) # {} THEN Result("OSError", f)
    ELSE Result("", Moved(f, old, new))

(***************************************************************************)
(* refresh_view.  Resetting the model's root path makes the model read the *)
(* filesystem again; the row of a vanished entry is removed, and the list  *)
(* view then has no current index or one of the entry's remaining          *)
(* siblings.  The indexes the window stored itself (current_index, the     *)
(* views' roots) keep the path they were set to.                           *)
(***************************************************************************)
CurrentAfterReset(a, f) ==
    IF a.list_current = NoIndex \/ Exists(f, a.list_current)
    THEN {a.list_current}
    ELSE {NoIndex} \cup Children(f, dirname(a.list_current))

\* refresh_view without the reset of the model's root path
refresh_view_no_reset(a, f, den) ==
    LET root_path == filePath(a.current_index)
    IN  { LET r == SetListCurrent(a, f, den, idx)
              moved == change_directory(r.a, f, Txt(root_path))
          IN  [a |-> [moved EXCEPT !.status = Msg("Refreshed", NoIndex, 0)],
               escaped |-> r.escaped]
          : idx \in CurrentAfterReset(a, f) }

\* refresh_view: every state it may leave the window in
refresh_view(a, f, den) ==
    LET root_path == filePath(a.current_index)
        reset == [a EXCEPT !.model_fs = f]
    IN  { LET r == SetListCurrent(reset, f, den, idx)
              moved == change_directory(r.a, f, Txt(root_path))
          IN  [a |-> [moved EXCEPT !.status = Msg("Refreshed", NoIndex, 0)],
               escaped |-> r.escaped]
          : idx \in CurrentAfterReset(reset, f) }

WithStatus(r, msg) == [r EXCEPT !.a.status = msg]

(***************************************************************************)
(* on_search: the walk, the match and the cap.                             *)
(***************************************************************************)
MatchCap == 1000

\* fnmatch.fnmatch (POSIX: case-sensitive), for patterns of literals, * and ?
RECURSIVE Glob(_, _)
Glob(name, pat) ==
    IF pat = <<>> THEN name = <<>>
    ELSE IF Head(pat) = "*"
         THEN Glob(name, Tail(pat)) \/ (name # <<>> /\ Glob(Tail(name), pat))
         ELSE IF name = <<>> THEN FALSE
              ELSE IF Head(pat) = "?" THEN Glob(Tail(name), Tail(pat))
                   ELSE Head(pat) = Head(name) /\ Glob(Tail(name), Tail(pat))

\* _wildcard_match
wildcard_match(name, pat) == Glob(name, pat)

\* the orders in which a directory listing may enumerate a set of entries
Perms(S) ==
    {s \in [1..Cardinality(S) -> S] :
        \A i, j \in 1..Cardinality(S) : i # j => s[i] # s[j]}

\* os.walk(top), top-down: every sequence of (root, files) it may yield.  A
\* directory that cannot be listed is skipped, as is a top that is none.
RECURSIVE Walks(_, _, _), WalkEach(_, _, _)
Walks(f, den, top) ==
    IF ~isdir(f, top) \/ top \in den THEN {<<>>}
    ELSE LET files == {q \in Children(f, top) : ~isdir(f, q)}
             dirs == {q \in Children(f, top) : isdir(f, q)}
         IN  UNION { { <<[root |-> top, files |-> [i \in DOMAIN fo |-> basename(fo[i])]]>> \o rest
                       : rest \in WalkEach(f, den, do) }
                     : fo \in Perms(files), do \in Perms(dirs) }
WalkEach(f, den, ds) ==
    IF ds = <<>> THEN {<<>>}
    ELSE {w \o rest : w \in Walks(f, den, Head(ds)), rest \in WalkEach(f, den, Tail(ds))}

\* the inner loop of on_search over one item of the walk
SearchDir(m, item, pat) ==
    LET hits == SelectSeq(item.files, LAMBDA name : pat = <<>> \/ wildcard_match(name, pat))
    IN  m \o [i \in 1..Len(hits) |-> join(item.root, hits[i])]

\* the test that ends the outer loop
CapReached(m) == Len(m) >= MatchCap

\* the outer loop of on_search from item i on
RECURSIVE SearchLoop(_, _, _, _)
SearchLoop(w, i, m, pat) ==
    IF i > Len(w) THEN m
    ELSE LET m2 == SearchDir(m, w[i], pat)
         IN  IF CapReached(m2) THEN m2 ELSE SearchLoop(w, i + 1, m2, pat)

\* on_search after the loop, for a result list m
on_search_result(a, f, den, m) ==
    IF m # <<>>
    THEN LET found == [a EXCEPT !.status = Msg("Found", NoIndex, Len(m))]
             first_dir == dirname(m[1])
             moved == change_directory(found, f, Txt(first_dir))
             idx == m[1]
         IN  IF IndexValid(f, idx)
             THEN SetListCurrent(moved, f, den, idx)
             ELSE [a |-> moved, escaped |-> FALSE]
    ELSE [a |-> a, escaped |-> FALSE]

\* the entries that may be unreadable to the user when the window opens
DeniedChoices == SUBSET {join(Home, nD), join(Home, nB)}

InitWith(den) ==
    /\ fs = InitFs
    /\ denied = den
    /\ app = InitApp
    /\ dialogs = <<>>
    /\ escaped = FALSE
    /\ event = Ev("init", NoIndex, <<>>, FALSE)
    /\ mutations = 0
    /\ matched = <<>>
    /\ walk = <<>>
    /\ pattern = <<>>
    /\ pos = 1
    /\ pc = "idle"

\* a user with full access: the file operations are modelled for it alone
Init == InitWith({})

InitPreview == \E den \in DeniedChoices : InitWith(den)

SearchIdle == UNCHANGED <<walk, pattern, pos, pc>>

\* a click on an entry of the list view
Select(index) ==
    /\ index \in Listing(app, denied)
    /\ index # app.list_current
    /\ LET r == SetListCurrent(app, fs, denied, index)
       IN  app' = r.a /\ escaped' = r.escaped
    /\ dialogs' = <<>>
    /\ event' = Ev("select", index, <<>>, FALSE)
    /\ UNCHANGED <<fs, denied, mutations, matched>>
    /\ SearchIdle

\* on_tree_clicked (the second definition, which replaces the first)
on_tree_clicked(index) ==
    /\ index \in TreeItems(app)
    /\ Len(app.history) < MaxHist
    /\ LET path == filePath(index)
           clicked == [app EXCEPT !.tree_current = index]
       IN  app' = change_directory(push_history(clicked), fs, Txt(path))
    /\ dialogs' = <<>>
    /\ event' = Ev("on_tree_clicked", index, <<>>, FALSE)
    /\ escaped' = FALSE
    /\ UNCHANGED <<fs, denied, mutations, matched>>
    /\ SearchIdle

\* on_address_entered, the address bar holding the typed text
on_address_entered(text) ==
    /\ LET typed == [app EXCEPT !.address_bar = text]
           path == strip(text)
       IN  IF IsDirText(fs, path)
           THEN /\ app' = change_directory(typed, fs, path)
                /\ dialogs' = <<>>
           ELSE /\ app' = typed
                /\ dialogs' = <<"Invalid Path">>
    /\ event' = [Ev("on_address_entered", text.path, <<>>, FALSE) EXCEPT !.name = text]
    /\ escaped' = FALSE
    /\ UNCHANGED <<fs, denied, mutations, matched>>
    /\ SearchIdle

\* on_item_activated: a double click on the entry the first click made current
on_item_activated(index) ==
    /\ index \in Listing(app, denied)
    /\ index = app.list_current
    /\ Len(app.history) < MaxHist
    /\ app' = open_state(app, fs, filePath(index))
    /\ dialogs' = <<>>
    /\ event' = Ev("on_item_activated", index, <<>>, ~isdir(fs, filePath(index)))
    /\ escaped' = FALSE
    /\ UNCHANGED <<fs, denied, mutations, matched>>
    /\ SearchIdle

\* open_item
open_item ==
    /\ Len(app.history) < MaxHist
    /\ LET idx == app.list_current
       IN  IF ~(idx # NoIndex)
           THEN /\ app' = app
                /\ dialogs' = <<"Open">>
                /\ event' = Ev("open_item", idx, <<>>, FALSE)
           ELSE /\ app' = open_state(app, fs, filePath(idx))
                /\ dialogs' = <<>>
                /\ event' = Ev("open_item", idx, <<>>, ~isdir(fs, filePath(idx)))
    /\ escaped' = FALSE
    /\ UNCHANGED <<fs, denied, mutations, matched>>
    /\ SearchIdle

go_back ==
    /\ app' = go_back_state(app, fs)
    /\ dialogs' = <<>>
    /\ event' = Ev("go_back", NoIndex, <<>>, FALSE)
    /\ escaped' = FALSE
    /\ UNCHANGED <<fs, denied, mutations, matched>>
    /\ SearchIdle

go_up ==
    /\ Len(app.history) < MaxHist
    /\ app' = go_up_state(app, fs)
    /\ dialogs' = <<>>
    /\ event' = Ev("go_up", NoIndex, <<>>, FALSE)
    /\ escaped' = FALSE
    /\ UNCHANGED <<fs, denied, mutations, matched>>
    /\ SearchIdle

\* refresh_view from the toolbar
refresh_action ==
    /\ \E r \in refresh_view(app, fs, denied) :
          app' = r.a /\ escaped' = r.escaped
    /\ dialogs' = <<>>
    /\ event' = Ev("refresh_view", NoIndex, <<>>, FALSE)
    /\ UNCHANGED <<fs, denied, mutations, matched>>
    /\ SearchIdle

\* new_folder, the input dialog returning (name, ok)
new_folder(name, ok) ==
    /\ LET cur_dir == filePath(app.current_index)
           new_path == join(cur_dir, name)
           made == makedirs(fs, new_path)
       IN  IF ok /\ name # <<>>
           THEN IF made.err = ""
                THEN /\ mutations < MaxMutations
                     /\ mutations' = mutations + 1
                     /\ fs' = made.fs
                     /\ \E r \in refresh_view(app, made.fs, denied) :
                           /\ app' = WithStatus(r, Msg("Created", new_path, 0)).a
                           /\ escaped' = r.escaped
                     /\ dialogs' = <<>>
                ELSE /\ dialogs' = IF made.err = "FileExistsError"
                                   THEN <<"Exists">> ELSE <<"Error">>
                     /\ escaped' = FALSE
                     /\ UNCHANGED <<fs, app, mutations>>
           ELSE /\ dialogs' = <<>>
                /\ escaped' = FALSE
                /\ UNCHANGED <<fs, app, mutations>>
    /\ event' = Ev("new_folder", NoIndex, name, ok)
    /\ UNCHANGED <<denied, matched>>
    /\ SearchIdle

\* delete_item, the confirmation answered yes or no
delete_item(yes) ==
    /\ LET idx == app.list_current
           path == filePath(idx)
           gone == IF isdir(fs, path) THEN rmtree(fs, path) ELSE os_remove(fs, path)
       IN  IF ~(idx # NoIndex)
           THEN /\ dialogs' = <<"Delete">>
                /\ escaped' = FALSE
                /\ UNCHANGED <<fs, app, mutations>>
           ELSE IF yes
                THEN IF gone.err = ""
                     THEN /\ mutations < MaxMutations
                          /\ mutations' = mutations + 1
                          /\ fs' = gone.fs
                          /\ \E r \in refresh_view(app, gone.fs, denied) :
                                /\ app' = WithStatus(r, Msg("Deleted", path, 0)).a
                                /\ escaped' = r.escaped
                          /\ dialogs' = <<"Confirm Delete">>
                     ELSE /\ dialogs' = <<"Confirm Delete", "Delete Error">>
                          /\ escaped' = FALSE
                          /\ UNCHANGED <<fs, app, mutations>>
                ELSE /\ dialogs' = <<"Confirm Delete">>
                     /\ escaped' = FALSE
                     /\ UNCHANGED <<fs, app, mutations>>
    /\ event' = Ev("delete_item", app.list_current, <<>>, yes)
    /\ UNCHANGED <<denied, matched>>
    /\ SearchIdle

\* rename_item, the input dialog returning (new_name, ok)
rename_item(new_name, ok) ==
    /\ LET idx == app.list_current
           old_path == filePath(idx)
           old_name == basename(old_path)
           new_path == join(dirname(old_path), new_name)
           done == os_rename(fs, old_path, new_path)
       IN  IF ~(idx # NoIndex)
           THEN /\ dialogs' = <<"Rename">>
                /\ escaped' = FALSE
                /\ UNCHANGED <<fs, app, mutations>>
           ELSE IF ok /\ new_name # <<>> /\ new_name # old_name
                THEN IF done.err = ""
                     THEN /\ mutations < MaxMutations
                          /\ mutations' = mutations + 1
                          /\ fs' = done.fs
                          /\ \E r \in refresh_view(app, done.fs, denied) :
                                /\ app' = WithStatus(r, Msg("Renamed", new_path, 0)).a
                                /\ escaped' = r.escaped
                          /\ dialogs' = <<>>
                     ELSE /\ dialogs' = <<"Rename Error">>
                          /\ escaped' = FALSE
                          /\ UNCHANGED <<fs, app, mutations>>
                ELSE /\ dialogs' = <<>>
                     /\ escaped' = FALSE
                     /\ UNCHANGED <<fs, app, mutations>>
    /\ event' = Ev("rename_item", app.list_current, new_name, ok)
    /\ UNCHANGED <<denied, matched>>
    /\ SearchIdle

\* on_search, the search box holding pat
on_search(pat) ==
    /\ \E w \in Walks(fs, denied, filePath(app.current_index)) :
          LET m == SearchLoop(w, 1, <<>>, pat)
              r == on_search_result(app, fs, denied, m)
          IN  /\ app' = r.a
              /\ escaped' = r.escaped
              /\ dialogs' = IF m # <<>> THEN <<>> ELSE <<"Search">>
              /\ event' = [Ev("on_search", IF m # <<>> THEN m[1] ELSE NoIndex, pat, m # <<>>)
                              EXCEPT !.n = Len(m)]
    /\ UNCHANGED <<fs, denied, mutations, matched>>
    /\ SearchIdle

\* what the user may type into the address bar
AddressTexts ==
    LET paths == {Root, join(Home, nD), join(Home, nB), join(Home, nN)}
    IN  {Txt(p) : p \in paths}
        \cup {[Txt(p) EXCEPT !.pad = TRUE] : p \in paths}
        \cup {[Txt(p) EXCEPT !.slash = TRUE] : p \in paths \ {Root}}

\* what the input dialogs may return: a name and OK, no name, or Cancel
FolderInputs == {<<nN, TRUE>>, <<<<>>, TRUE>>, <<nN, FALSE>>}

RenameInputs == {<<nN, TRUE>>, <<<<>>, TRUE>>, <<nN, FALSE>>}

\* what the user may type into the search box
Patterns == {<<>>, <<"*", ".", "t">>, <<"b", "*">>, <<"?">>}

Next ==
    \/ \E index \in DOMAIN fs : Select(index)
    \/ \E index \in DOMAIN fs : on_tree_clicked(index)
    \/ \E text \in AddressTexts : on_address_entered(text)
    \/ \E index \in DOMAIN fs : on_item_activated(index)
    \/ open_item
    \/ go_back
    \/ go_up
    \/ refresh_action
    \/ \E pat \in Patterns : on_search(pat)

Spec == Init /\ [][Next]_vars

NextFiles ==
    \/ \E index \in DOMAIN fs : Select(index)
    \/ \E index \in DOMAIN fs : on_item_activated(index)
    \/ go_back
    \/ go_up
    \/ \E in \in FolderInputs : new_folder(in[1], in[2])
    \/ \E yes \in BOOLEAN : delete_item(yes)
    \/ \E in \in RenameInputs : rename_item(in[1], in[2])

SpecFiles == Init /\ [][NextFiles]_vars

NextPreview ==
    \/ \E index \in DOMAIN fs : Select(index)
    \/ \E index \in DOMAIN fs : on_item_activated(index)
    \/ open_item
    \/ go_back
    \/ go_up

SpecPreview == InitPreview /\ [][NextPreview]_vars

(***************************************************************************)
(* The loop of on_search, one os.walk item a step, over directories that   *)
(* hold up to MatchCap + Extra files.                                      *)
(***************************************************************************)
Digit == <<"0", "1", "2", "3", "4", "5", "6", "7", "8", "9">>

\* the k-th file of a large directory: f0001, f0002, ...
FileName(k) ==
    <<"f", Digit[((k \div 1000) % 10) + 1], Digit[((k \div 100) % 10) + 1],
           Digit[((k \div 10) % 10) + 1], Digit[(k % 10) + 1]>>

DirSizes == {0, 1, MatchCap - 1, MatchCap, MatchCap + Extra}

\* a chain of directories below the current one, the i-th holding sizes[i] files
WalkOf(sizes) ==
    [i \in 1..Len(sizes) |->
        [root |-> Home \o [j \in 1..(i - 1) |-> nD],
         files |-> [k \in 1..sizes[i] |-> FileName(k)]]]

WalkInputs ==
    {WalkOf(sizes) : sizes \in UNION {[1..n -> DirSizes] : n \in 1..MaxWalkDirs}}

LoopPatterns == {<<>>, <<"*">>, <<"f", "*", "7">>, <<"f", "?", "?", "0", "*">>}

InitSearch ==
    /\ fs = InitFs
    /\ denied = {}
    /\ app = InitApp
    /\ dialogs = <<>>
    /\ escaped = FALSE
    /\ event = Ev("on_search", NoIndex, <<>>, FALSE)
    /\ mutations = 0
    /\ matched = <<>>
    /\ walk \in WalkInputs
    /\ pattern \in LoopPatterns
    /\ pos = 1
    /\ pc = "loop"

\* one pass of the outer loop: the inner loop, then the test of the cap
WalkItem ==
    /\ pc = "loop"
    /\ pos <= Len(walk)
    /\ matched' = SearchDir(matched, walk[pos], pattern)
    /\ IF CapReached(matched')
       THEN pc' = "done" /\ pos' = pos
       ELSE pc' = "loop" /\ pos' = pos + 1
    /\ UNCHANGED <<fs, denied, app, dialogs, escaped, event, mutations, walk, pattern>>

\* os.walk is exhausted
WalkEnd ==
    /\ pc = "loop"
    /\ pos > Len(walk)
    /\ pc' = "done"
    /\ UNCHANGED <<fs, denied, app, dialogs, escaped, event, mutations, matched, walk, pattern, pos>>

NextSearch == WalkItem \/ WalkEnd

SpecSearch == InitSearch /\ [][NextSearch]_vars

(***************************************************************************)
(* What a handler asks of _change_directory.                               *)
(***************************************************************************)
\* the handlers the user navigates forward with
ForwardOps ==
    {"on_tree_clicked", "on_item_activated", "open_item", "on_address_entered",
     "on_search", "go_up"}

\* the directory a forward handler e was asked to show
NavTarget(e) ==
    CASE e.op = "on_search" -> dirname(e.path)
      [] e.op = "go_up" -> dirname(e.from)
      [] OTHER -> e.path

\* the forward handler e, run on filesystem f, was given a directory to show
NavAsked(e, f) ==
    /\ e.op \in ForwardOps
    /\ e.op = "on_search" => e.yes
    /\ e.op \in {"on_item_activated", "open_item"} => e.path # NoIndex
    /\ isdir(f, NavTarget(e))

\* the texts handler e, run from window state a, hands to _change_directory
\* or, for a typed address, tests itself; changed: a file operation succeeded
\* and refresh_view ran
Requested(e, a, changed) ==
    CASE e.op = "on_tree_clicked" -> {Txt(e.path)}
      [] e.op = "on_address_entered" -> {strip(e.name)}
      [] e.op = "go_back" ->
            IF a.history # <<>> THEN {Txt(a.history[Len(a.history)])} ELSE {}
      [] e.op = "refresh_view" -> {Txt(a.current_index)}
      [] e.op \in {"new_folder", "delete_item", "rename_item"} ->
            IF changed THEN {Txt(a.current_index)} ELSE {}
      [] OTHER -> {}

(***************************************************************************)
(* The claims.                                                             *)
(***************************************************************************)

\* C1: the result list of on_search never holds more than 1000 paths,
\* whatever the tree and the pattern.
C1_ResultAtMostCap == Len(matched) <= MatchCap

\* C2 (its case n = 1): after one successful forward navigation from P, of
\* any kind, one go_back makes the current path P again.
C2_BackUndoesForward ==
    [][(NavAsked(event, fs) /\ event'.op = "go_back")
          => app'.current_index = event.from]_vars

\* C3: a navigation request whose target is no directory leaves the current
\* path, the list view's root and the address bar as they were; a typed
\* address that is no directory only shows the warning.
C3_InvalidTargetChangesNothing ==
    [][\A t \in Requested(event', app, fs' # fs) :
          ~IsDirText(fs', PathNorm(t)) =>
             /\ app'.current_index = app.current_index
             /\ app'.list_root = app.list_root
             /\ app'.address_bar =
                   IF event'.op = "on_address_entered"
                   THEN event'.name ELSE app.address_bar
             /\ event'.op = "on_address_entered" =>
                   /\ dialogs' = <<"Invalid Path">>
                   /\ app' = [app EXCEPT !.address_bar = event'.name]
                   /\ fs' = fs]_vars

\* an address that is no directory was typed and entered
C3_Witness ==
    /\ event.op = "on_address_entered"
    /\ ~IsDirText(fs, strip(event.name))
    /\ dialogs = <<"Invalid Path">>
    /\ app.current_index = event.from

\* C4: new_folder with a name that exists in the current directory shows
\* "Exists" and changes neither the filesystem nor the window; a new_folder
\* that succeeds leaves that name existing in the same current directory,
\* so that the same name given again is such a case.
C4_ExistingNameIsRefused ==
    [][event'.op = "new_folder" /\ event'.yes /\ event'.name # <<>> =>
          /\ Exists(fs, join(app.current_index, event'.name)) =>
                /\ dialogs' = <<"Exists">>
                /\ fs' = fs
                /\ app' = app
          /\ fs' # fs =>
                /\ isdir(fs', join(app.current_index, event'.name))
                /\ app'.current_index = app.current_index]_vars

\* the second of two new_folder calls in a row with the same name
C4_Witness ==
    /\ event.op = "new_folder"
    /\ event.name = nN
    /\ dialogs = <<"Exists">>
    /\ app.status = Msg("Created", join(app.current_index, nN), 0)

\* C5: selecting an entry never lets an exception leave the selection
\* handler; when the selected entry cannot be read the preview shows the
\* inline error message.
C5_PreviewNeverRaises ==
    event.op = "select" =>
        /\ ~escaped
        /\ event.path \in denied => app.preview.kind = "error"

\* C6: after a confirmed delete that succeeded, the refreshed model holds
\* no entry of the deleted path, so no listing shows it; a declined delete
\* leaves the filesystem as it was.
C6_DeletedEntryIsGone ==
    [][event'.op = "delete_item" /\ event'.path # NoIndex =>
          /\ (event'.yes /\ dialogs' = <<"Confirm Delete">>) =>
                /\ ~Exists(fs', event'.path)
                /\ ~Exists(app'.model_fs, event'.path)
                /\ event'.path \notin Listing(app', denied')
          /\ ~event'.yes => fs' = fs /\ app' = app]_vars

\* an entry of the directory on display was deleted, others remain listed
C6_Witness ==
    /\ event.op = "delete_item"
    /\ event.yes
    /\ dialogs = <<"Confirm Delete">>
    /\ dirname(event.path) = app.list_root
    /\ ~Exists(fs, event.path)
    /\ Listing(app, denied) # {}

\* C7: go_up pushes the current path and shows the parent exactly when the
\* parent is a directory other than the current path; at the filesystem
\* root it changes neither the current path nor the history.
C7_GoUpOnlyToAnotherDirectory ==
    [][event'.op = "go_up" =>
          LET cur == app.current_index
              parent == dirname(cur)
          IN  IF isdir(fs, parent) /\ parent # cur
              THEN /\ app'.history = Append(app.history, cur)
                   /\ app'.current_index = parent
              ELSE /\ app'.history = app.history
                   /\ app'.current_index = app.current_index]_vars

\* C8: after a search with a non-empty result the current path is the
\* directory of the first match, the first match is the list view's current
\* entry and the status bar shows the count of the matches.
C8_SearchShowsFirstMatch ==
    (event.op = "on_search" /\ event.yes) =>
        /\ app.current_index = dirname(event.path)
        /\ app.list_current = event.path
        /\ app.status = Msg("Found", NoIndex, event.n)

\* C9: a handler that appends to the history also makes the requested
\* directory the current path; a rejected navigation appends nothing.
C9_HistoryGrowsOnlyWithNavigation ==
    [][Len(app'.history) > Len(app.history) =>
          /\ isdir(fs', NavTarget(event'))
          /\ app'.current_index = NavTarget(event')]_vars

\* C10: the current path is an existing directory in every state the
\* window's own operations reach.
C10_CurrentPathExists == isdir(fs, app.current_index)

====
